---- MODULE Spec2Model ----
(***************************************************************************)
(* Model of token-rs (src/src/lib.rs): Tokenizer, an iterator of the       *)
(* separator-free runs of a character source, and SentenceSplitter, an     *)
(* iterator that regroups the tokens of a Tokenizer into sentences.        *)
(*                                                                         *)
(* A character is a one-character string; a Rust String or &str is a       *)
(* sequence of characters.  The character source (io::Chars<R>) is a       *)
(* sequence of items, each a character or Fault, a read that fails.        *)
(***************************************************************************)
EXTENDS Naturals, Sequences, FiniteSets

\* ------------------------------------------------------------------ bounds

\* Longest enumerated source, in items.
MaxLen == 5

\* Calls a client still makes after an iterator has returned None.
MaxEndCalls == 2

\* --------------------------------------------------------------- alphabet

\* An item of the source on which the read fails (Some(Err(e)) of io::Chars).
Fault == "FAULT"

\* The characters of the enumerated sources.
Alphabet == {"a", ".", "\"", " "}

Items == Alphabet \cup {Fault}

\* Separator vectors given to Tokenizer::new.
SeparatorChoices == {<<>>, <<" ">>}

\* Terminator vectors given to SentenceSplitter::new.
TerminatorChoices == {<<>>, << <<".">> >>}

\* Quote vectors given to SentenceSplitter::new.
QuoteChoices ==
    {<<>>, << <<"\"">> >>, << <<".">> >>,
     << <<"\"">>, <<"\"", "a">> >>, << <<"\"", "a">>, <<"\"">> >>}

\* Sources one item longer than MaxLen, of punctuation and blanks only.
PunctItems == {".", "\"", " "}
PunctSources == [1..(MaxLen + 1) -> PunctItems]

\* The configuration of the examples: lib.rs lines 141-142.
DocSeparators == <<" ", "\n", "\t", "\r">>
DocTerminators == << <<".">>, <<"!">>, <<"?">> >>

\* "What did he say", she asked me.   (the second sentence of lib.rs line 145)
QuotedText ==
    <<"\"", "W", "h", "a", "t", " ", "d", "i", "d", " ", "h", "e", " ",
      "s", "a", "y", "\"", ",", " ", "s", "h", "e", " ", "a", "s", "k", "e", "d",
      " ", "m", "e", ".">>

\* ------------------------------------------------------------------ state

VARIABLES
    input,        \* the whole source, as given to Tokenizer::new
    separators,   \* Tokenizer.separators
    terminators,  \* SentenceSplitter.terminators
    quote_types,  \* SentenceSplitter.quote_types
    user,         \* which iterator the client drives: "tokenizer" or "splitter"
    chars,        \* Tokenizer.chars: the items not read yet
    tok_current,  \* Tokenizer.current
    current,      \* SentenceSplitter.current
    history       \* what each call of next() returned, in call order, with
                  \* the number of source items left unread after the call

vars == <<input, separators, terminators, quote_types, user, chars,
          tok_current, current, history>>

\* ------------------------------------------------------------- str helpers

\* str::starts_with
StartsWith(s, p) == Len(p) <= Len(s) /\ SubSeq(s, 1, Len(p)) = p

\* str::ends_with
EndsWith(s, p) ==
    Len(p) <= Len(s) /\ SubSeq(s, Len(s) - Len(p) + 1, Len(s)) = p

SeqsUpTo(S, n) == UNION {[1..k -> S] : k \in 0..n}

\* -------------------------------------------------------------- Tokenizer

\* lib.rs 96-97: the character is one of the separators.
IsSeparator(c) == \E i \in 1..Len(separators) : separators[i] = c

\* lib.rs 88: self.current.clear()
TokClear(cur) == <<>>

\* lib.rs 114-119: the source is exhausted.
LeftoverDropped(cur) == "none"
Leftover(cur) == IF cur # <<>> THEN "token" ELSE "none"

RECURSIVE TokenizerLoop(_, _)

\* lib.rs 97-102: the character read is a separator; rest is the source
\* after it.  A non-empty buffer is returned, an empty one reads on
\* (continue 'main).
SeparatorReadYieldsEmpty(rest, cur) ==
    [kind |-> "token", chars |-> rest, current |-> cur]
SeparatorReadDiscards(rest, cur) == TokenizerLoop(rest, <<>>)
SeparatorReadBreaks(rest, cur) ==
    IF cur # <<>>
    THEN [kind |-> "token", chars |-> rest, current |-> cur]
    ELSE [kind |-> Leftover(cur), chars |-> rest, current |-> cur]
SeparatorRead(rest, cur) ==
    IF cur # <<>>
    THEN [kind |-> "token", chars |-> rest, current |-> cur]
    ELSE TokenizerLoop(rest, cur)

\* lib.rs 109: the read failed; rest is the source after the failed read.
FaultReadAsEnd(rest, cur) ==
    [kind |-> Leftover(cur), chars |-> rest, current |-> cur]
FaultRead(rest, cur) == [kind |-> "err", chars |-> rest, current |-> cur]

\* lib.rs 89-119: the loop of Tokenizer::next, from source cs and buffer cur.
\* kind is "token" (Some(Ok)), "err" (Some(Err)) or "none" (None).
TokenizerLoop(cs, cur) ==
    IF cs = <<>>
    THEN [kind |-> Leftover(cur), chars |-> cs, current |-> cur]
    ELSE LET c == Head(cs)
             rest == Tail(cs)
         IN  IF c = Fault
             THEN FaultRead(rest, cur)
             ELSE IF IsSeparator(c)
             THEN SeparatorRead(rest, cur)
             ELSE TokenizerLoop(rest, Append(cur, c))

\* lib.rs 87-120: Tokenizer::next
TokenizerNextOf(cs, cur) == TokenizerLoop(cs, TokClear(cur))

\* ------------------------------------------------------- SentenceSplitter

Space == <<" ">>
Ellipsis == <<".", ".">>

\* lib.rs 198-199: the first quote type the token starts with, 0 if none.
QuoteIndexLast(s) ==
    IF \E i \in 1..Len(quote_types) : StartsWith(s, quote_types[i])
    THEN CHOOSE i \in 1..Len(quote_types) :
            /\ StartsWith(s, quote_types[i])
            /\ \A j \in (i + 1)..Len(quote_types) : ~StartsWith(s, quote_types[j])
    ELSE 0
QuoteIndex(s) ==
    IF \E i \in 1..Len(quote_types) : StartsWith(s, quote_types[i])
    THEN CHOOSE i \in 1..Len(quote_types) :
            /\ StartsWith(s, quote_types[i])
            /\ \A j \in 1..(i - 1) : ~StartsWith(s, quote_types[j])
    ELSE 0

\* lib.rs 211: s.ends_with("..")
IsEllipsis(s) == EndsWith(s, Ellipsis)

\* lib.rs 215-216: the token ends with one of the terminators.
HasTerminatorAtStart(s) == \E i \in 1..Len(terminators) : StartsWith(s, terminators[i])
HasTerminator(s) == \E i \in 1..Len(terminators) : EndsWith(s, terminators[i])

\* lib.rs 209-219: the token is outside a quote and starts none.
PlainDecideNoEllipsis(s) == HasTerminator(s)
PlainDecide(s) == IF IsEllipsis(s) THEN FALSE ELSE HasTerminator(s)

\* lib.rs 196-220: the token s is read outside a quote.  ret is whether
\* next() returns the sentence, quote is the local quote afterwards.
OutsideDecideAlwaysOpens(s) ==
    IF QuoteIndex(s) # 0
    THEN [ret |-> FALSE, quote |-> quote_types[QuoteIndex(s)]]
    ELSE [ret |-> PlainDecide(s), quote |-> <<>>]
OutsideDecide(s) ==
    IF QuoteIndex(s) # 0
    THEN LET qt == quote_types[QuoteIndex(s)]
         IN  IF EndsWith(s, qt)
             THEN [ret |-> TRUE, quote |-> <<>>]
             ELSE [ret |-> FALSE, quote |-> qt]
    ELSE [ret |-> PlainDecide(s), quote |-> <<>>]

\* lib.rs 188-220: what the token s decides when the local quote is quote.
DecideFallsThrough(s, quote) ==
    IF quote # <<>>
    THEN [ret |-> EndsWith(s, quote) \/ PlainDecide(s), quote |-> quote]
    ELSE OutsideDecide(s)
Decide(s, quote) ==
    IF quote # <<>>
    THEN [ret |-> EndsWith(s, quote), quote |-> quote]
    ELSE OutsideDecide(s)

\* lib.rs 204, 212, 222: self.current.push_str(" ") before the next token.
PushSpace(cur) == cur \o Space

\* lib.rs 228-234: the tokenizer returned None.
AtEndAlwaysSome(cur) == "value"
AtEndDropsLeftover(cur) == "end"
AtEnd(cur) == IF Len(cur) # 0 THEN "value" ELSE "end"

\* lib.rs 181-236: the loop of SentenceSplitter::next.  cs and tcur are the
\* tokenizer's source and buffer, cur is self.current, quote the local
\* quote, toks the tokens pulled by this call so far.
\* kind is "value" (Some(Ok)), "err" (Some(Err)) or "end" (None); atEnd is
\* whether the call returned from the None arm.
RECURSIVE SplitterLoop(_, _, _, _, _)
SplitterLoop(cs, tcur, cur, quote, toks) ==
    LET r == TokenizerNextOf(cs, tcur)
    IN  CASE r.kind = "none" ->
               [kind |-> AtEnd(cur), chars |-> r.chars, tok_current |-> r.current,
                current |-> cur, quote |-> quote, toks |-> toks, atEnd |-> TRUE]
          [] r.kind = "err" ->
               [kind |-> "err", chars |-> r.chars, tok_current |-> r.current,
                current |-> cur, quote |-> quote, toks |-> toks, atEnd |-> FALSE]
          [] r.kind = "token" ->
               LET s == r.current
                   pushed == cur \o s
                   d == Decide(s, quote)
               IN  IF d.ret
                   THEN [kind |-> "value", chars |-> r.chars,
                         tok_current |-> r.current, current |-> pushed,
                         quote |-> d.quote, toks |-> Append(toks, s),
                         atEnd |-> FALSE]
                   ELSE SplitterLoop(r.chars, r.current, PushSpace(pushed),
                                     d.quote, Append(toks, s))

\* lib.rs 179: self.current.clear()
SentClearKeeps(cur) == cur
SentClear(cur) == <<>>

\* lib.rs 178-237: SentenceSplitter::next; the local quote starts empty
\* (lib.rs 180).
SplitterNextKeepsQuote(cs, tcur, cur) ==
    SplitterLoop(cs, tcur, SentClear(cur),
                 IF history = <<>> THEN <<>> ELSE history[Len(history)].quote, <<>>)
SplitterNextOf(cs, tcur, cur) == SplitterLoop(cs, tcur, SentClear(cur), <<>>, <<>>)

\* ---------------------------------------------------------------- client

\* Calls that returned None so far.
EndCount == Cardinality({i \in 1..Len(history) : history[i].kind = "end"})

Init ==
    /\ \/ /\ input \in SeqsUpTo(Items, MaxLen)
          /\ separators \in SeparatorChoices
          /\ \/ /\ user = "tokenizer"
                /\ terminators = <<>>
                /\ quote_types = <<>>
             \/ /\ user = "splitter"
                /\ terminators \in TerminatorChoices
                /\ quote_types \in QuoteChoices
       \/ /\ input \in PunctSources
          /\ separators = <<" ">>
          /\ terminators = << <<".">> >>
          /\ quote_types = << <<"\"">> >>
          /\ user = "splitter"
       \/ /\ input = QuotedText
          /\ separators = DocSeparators
          /\ terminators = DocTerminators
          /\ quote_types \in {<<>>, << <<"\"">> >>}
          /\ user = "splitter"
    /\ chars = input
    /\ tok_current = <<>>
    /\ current = <<>>
    /\ history = <<>>

\* The client calls Tokenizer::next (lib.rs 87-120).
TokenizerNext ==
    /\ user = "tokenizer"
    /\ EndCount < MaxEndCalls
    /\ LET r == TokenizerNextOf(chars, tok_current)
       IN  /\ chars' = r.chars
           /\ tok_current' = r.current
           /\ history' = Append(history,
                [kind |-> CASE r.kind = "token" -> "value"
                            [] r.kind = "none" -> "end"
                            [] OTHER -> "err",
                 value |-> IF r.kind = "token" THEN r.current ELSE <<>>,
                 toks |-> <<>>, quote |-> <<>>, atEnd |-> FALSE,
                 left |-> Len(r.chars)])
    /\ UNCHANGED <<input, separators, terminators, quote_types, user, current>>

\* The client calls SentenceSplitter::next (lib.rs 178-237).
SplitterNext ==
    /\ user = "splitter"
    /\ EndCount < MaxEndCalls
    /\ LET r == SplitterNextOf(chars, tok_current, current)
       IN  /\ chars' = r.chars
           /\ tok_current' = r.tok_current
           /\ current' = r.current
           /\ history' = Append(history,
                [kind |-> r.kind,
                 value |-> IF r.kind = "value" THEN r.current ELSE <<>>,
                 toks |-> r.toks, quote |-> r.quote, atEnd |-> r.atEnd,
                 left |-> Len(r.chars)])
    /\ UNCHANGED <<input, separators, terminators, quote_types, user>>

Next == TokenizerNext \/ SplitterNext

Spec == Init /\ [][Next]_vars

\* ------------------------------------------------------- claim vocabulary

Last(s) == s[Len(s)]

RECURSIVE Flatten(_)
Flatten(ss) == IF ss = <<>> THEN <<>> ELSE Head(ss) \o Flatten(Tail(ss))

\* The tokens joined by exactly one space between consecutive tokens.
RECURSIVE JoinBySpace(_)
JoinBySpace(ts) ==
    IF ts = <<>> THEN <<>>
    ELSE IF Len(ts) = 1 THEN ts[1]
    ELSE ts[1] \o <<" ">> \o JoinBySpace(Tail(ts))

IsValue(h) == h.kind = "value"

\* The tokens or sentences the calls so far yielded, in order.
Values == LET vs == SelectSeq(history, IsValue)
          IN  [i \in 1..Len(vs) |-> vs[i].value]

\* The token lists of the sentences yielded so far, in order.
SentenceTokens == LET vs == SelectSeq(history, IsValue)
                  IN  [i \in 1..Len(vs) |-> vs[i].toks]

FaultFree == \A i \in 1..Len(input) : input[i] # Fault

Ended == history # <<>> /\ Last(history).kind = "end"

SepSet == {separators[i] : i \in 1..Len(separators)}
TermSet == {terminators[i] : i \in 1..Len(terminators)}
QuoteSet == {quote_types[i] : i \in 1..Len(quote_types)}

NotSep(c) == c \notin SepSet

\* The part of the source read so far.
Consumed == SubSeq(input, 1, Len(input) - Len(chars))

\* The maximal separator-free runs of the source, in source order.
RunStarts == {i \in 1..Len(input) : NotSep(input[i]) /\ (i = 1 \/ ~NotSep(input[i - 1]))}
RunEnd(i) == CHOOSE j \in i..Len(input) :
                /\ \A k \in i..j : NotSep(input[k])
                /\ j = Len(input) \/ ~NotSep(input[j + 1])
KthStart(k) == CHOOSE i \in RunStarts : Cardinality({j \in RunStarts : j < i}) = k - 1
Runs == [k \in 1..Cardinality(RunStarts) |-> SubSeq(input, KthStart(k), RunEnd(KthStart(k)))]

\* The token ends with two consecutive '.' characters.
EndsInDots(t) == Len(t) >= 2 /\ t[Len(t)] = "." /\ t[Len(t) - 1] = "."

\* The token ends with some terminator string.
EndsInTerminator(t) == \E x \in TermSet : EndsWith(t, x)

\* ------------------------------------------------------------------ C1

\* C1: every token yielded by Tokenizer.next(), to the client or to the
\* splitter, is non-empty and contains no separator character.
C1_TokenNonEmptySeparatorFree ==
    \A i \in 1..Len(history) :
        LET h == history[i]
            ts == IF user = "tokenizer" /\ IsValue(h) THEN <<h.value>> ELSE h.toks
        IN  \A k \in 1..Len(ts) :
                /\ ts[k] # <<>>
                /\ \A n \in 1..Len(ts[k]) : NotSep(ts[k][n])

\* A token was yielded after two leading separators were skipped.
C1_Witness ==
    /\ user = "tokenizer"
    /\ Len(input) >= 3
    /\ ~NotSep(input[1]) /\ ~NotSep(input[2])
    /\ Values # <<>>

\* ------------------------------------------------------------------ C2

\* C2: for a fault-free source, the tokens yielded until end-of-sequence are
\* exactly the maximal non-empty separator-free runs of the source, in order.
C2_TokensAreMaximalRuns ==
    (user = "tokenizer" /\ FaultFree /\ Ended) => Values = Runs

\* Two tokens around consecutive separators, the last one unterminated.
C2_Witness ==
    /\ user = "tokenizer" /\ FaultFree /\ Ended
    /\ Len(Values) = 2
    /\ NotSep(Last(input))
    /\ \E i \in 1..(Len(input) - 1) : ~NotSep(input[i]) /\ ~NotSep(input[i + 1])

\* ------------------------------------------------------------------ C3

\* C3: for a fault-free source, the tokens yielded so far concatenate to the
\* consumed part of the source with its separators removed, and at
\* end-of-sequence to the whole source with its separators removed.
C3_ConcatenationIsStrippedInput ==
    (user = "tokenizer" /\ FaultFree) =>
        /\ Flatten(Values) = SelectSeq(Consumed, NotSep)
        /\ Ended => Flatten(Values) = SelectSeq(input, NotSep)

\* The source held separators and two tokens, and is exhausted.
C3_Witness ==
    /\ user = "tokenizer" /\ FaultFree /\ Ended
    /\ Len(Values) >= 2
    /\ Len(SelectSeq(input, NotSep)) < Len(input)

\* ------------------------------------------------------------------ C4

\* C4: every yielded sentence equals its tokens joined by exactly one space,
\* with no trailing space, however the sentence ended.
C4_SentenceIsJoinedTokens ==
    user = "splitter" =>
        \A i \in 1..Len(history) :
            IsValue(history[i]) => history[i].value = JoinBySpace(history[i].toks)

\* ------------------------------------------------------------------ C5

\* C5 as stated: no sentence yielded from a token (not from the None arm)
\* has a last token ending in "..".
C5_NeverEndsOnEllipsis ==
    user = "splitter" =>
        \A i \in 1..Len(history) :
            LET h == history[i]
            IN  (IsValue(h) /\ ~h.atEnd) => ~EndsInDots(Last(h.toks))

\* C5 amended: a sentence yielded from a token ending in ".." was ended by
\* a quote rule: the token ends with the open quote, or it is outside a
\* quote and starts and ends with a quote delimiter.  The terminator rule
\* never ends a sentence on such a token.
C5_EllipsisEndsOnlyByQuote ==
    user = "splitter" =>
        \A i \in 1..Len(history) :
            LET h == history[i]
                t == Last(h.toks)
            IN  (IsValue(h) /\ ~h.atEnd /\ EndsInDots(t)) =>
                    \/ h.quote # <<>> /\ EndsWith(t, h.quote)
                    \/ /\ h.quote = <<>>
                       /\ \E q \in QuoteSet : StartsWith(t, q) /\ EndsWith(t, q)

\* "." is a terminator and a sentence ran over a token ending in ".." to
\* end at a later token.
C5_Witness ==
    /\ user = "splitter"
    /\ <<".">> \in TermSet
    /\ \E i \in 1..Len(history) :
          LET h == history[i]
          IN  /\ IsValue(h) /\ ~h.atEnd /\ h.quote = <<>>
              /\ \E j \in 1..(Len(h.toks) - 1) : EndsInDots(h.toks[j])

\* ------------------------------------------------------------------ C6

\* A quote span was opened during the call of history entry h.
SpanOpened(h) == h.quote # <<>>

\* The token that opened the span of h: the first one starting with h.quote.
OpenAt(h) == CHOOSE k \in 1..Len(h.toks) :
                /\ StartsWith(h.toks[k], h.quote)
                /\ \A j \in 1..(k - 1) : ~StartsWith(h.toks[j], h.quote)

\* C6 as stated, with the double quote as the only delimiter: a sentence in
\* which a quote span was opened is yielded only at a later token ending with
\* the span's delimiter, and never at a token ending with a terminator or
\* with "..".
C6_SpanEndsOnlyAtDelimiter ==
    (user = "splitter" /\ quote_types = << <<"\"">> >>) =>
        \A i \in 1..Len(history) :
            LET h == history[i]
                t == Last(h.toks)
            IN  (IsValue(h) /\ SpanOpened(h)) =>
                    /\ ~h.atEnd
                    /\ Len(h.toks) > OpenAt(h)
                    /\ EndsWith(t, h.quote)
                    /\ ~EndsInTerminator(t)
                    /\ ~EndsInDots(t)

\* C6 amended: the token opening a span with delimiter q does not end with
\* q; while the span is open a token ends the sentence if and only if it ends
\* with q, whatever terminator or ".." it ends with; a sentence with an open
\* span is otherwise yielded only from the None arm, at the end of the tokens.
C6_SpanEndsAtDelimiterOrEnd ==
    user = "splitter" =>
        \A i \in 1..Len(history) :
            LET h == history[i]
                n == Len(h.toks)
                k == OpenAt(h)
            IN  (IsValue(h) /\ SpanOpened(h)) =>
                    /\ \E j \in 1..n : StartsWith(h.toks[j], h.quote)
                    /\ ~EndsWith(h.toks[k], h.quote)
                    /\ \A j \in (k + 1)..(n - 1) : ~EndsWith(h.toks[j], h.quote)
                    /\ IF h.atEnd
                       THEN n = k \/ ~EndsWith(h.toks[n], h.quote)
                       ELSE n > k /\ EndsWith(h.toks[n], h.quote)

\* A span was opened, a token ending with a terminator or ".." was read
\* inside it without ending the sentence, and a later token ending with the
\* delimiter ended it.
C6_Witness ==
    /\ user = "splitter"
    /\ \E i \in 1..Len(history) :
          LET h == history[i]
          IN  /\ IsValue(h) /\ SpanOpened(h) /\ ~h.atEnd
              /\ \E j \in (OpenAt(h) + 1)..(Len(h.toks) - 1) :
                    EndsInTerminator(h.toks[j]) \/ EndsInDots(h.toks[j])

\* ------------------------------------------------------------------ C7

\* The token ends with a terminator and not with "..".
IsCut(t) == EndsInTerminator(t) /\ ~EndsInDots(t)

\* C7: with no quote delimiters, every sentence is a non-empty list of
\* tokens with no cut token before its last; a sentence yielded from a token
\* ends at a cut token; a sentence yielded from the None arm holds no cut
\* token and the next call returns end-of-sequence; for a fault-free source
\* the sentences' tokens at end-of-sequence are the whole token stream.
C7_CutsAfterTerminatorTokens ==
    (user = "splitter" /\ quote_types = <<>>) =>
        /\ \A i \in 1..Len(history) :
              LET h == history[i]
                  n == Len(h.toks)
              IN  IsValue(h) =>
                    /\ n >= 1
                    /\ \A j \in 1..(n - 1) : ~IsCut(h.toks[j])
                    /\ IsCut(h.toks[n]) <=> ~h.atEnd
                    /\ (h.atEnd /\ i < Len(history)) => history[i + 1].kind = "end"
        /\ (FaultFree /\ Ended) => Flatten(SentenceTokens) = Runs

\* No quote delimiters: a sentence cut at a terminator token, then a final
\* sentence of the remaining tokens, then end-of-sequence.
C7_Witness ==
    /\ user = "splitter" /\ quote_types = <<>> /\ Ended
    /\ Len(history) >= 3
    /\ IsValue(history[1]) /\ ~history[1].atEnd /\ Len(history[1].toks) >= 2
    /\ IsValue(history[2]) /\ history[2].atEnd

\* ------------------------------------------------------------------ C8

\* C8: the quoted text, with the examples' separators and terminators and
\* the double quote as quote delimiter, yields one sentence identical to
\* the text and then end-of-sequence.
C8_QuotedTextIsOneSentence ==
    (/\ user = "splitter"
     /\ input = QuotedText
     /\ separators = DocSeparators
     /\ terminators = DocTerminators
     /\ quote_types = << <<"\"">> >>
     /\ Len(history) >= 2) =>
        /\ IsValue(history[1])
        /\ history[1].value = QuotedText
        /\ history[2].kind = "end"

\* ------------------------------------------------------------------ C9

\* C9: once Tokenizer.next() has returned end-of-sequence, every later call
\* returns end-of-sequence.
C9_TokenizerEndIsSticky ==
    user = "tokenizer" =>
        \A i \in 1..Len(history) : \A j \in i..Len(history) :
            history[i].kind = "end" => history[j].kind = "end"

\* Tokens were yielded, then end-of-sequence twice.
C9_Witness ==
    /\ user = "tokenizer"
    /\ Len(history) >= 3
    /\ IsValue(history[1])
    /\ history[Len(history) - 1].kind = "end"
    /\ Last(history).kind = "end"

\* ------------------------------------------------------------------ C10

\* C10: every yielded sentence is non-empty, and a call in which the
\* tokenizer ends with no token pulled returns end-of-sequence.
C10_SentenceNonEmpty ==
    user = "splitter" =>
        \A i \in 1..Len(history) :
            LET h == history[i]
            IN  /\ IsValue(h) => h.value # <<>>
                /\ (h.atEnd /\ h.toks = <<>>) => h.kind = "end"

\* A sentence was yielded and the next call, pulling no token, returned
\* end-of-sequence.
C10_Witness ==
    /\ user = "splitter"
    /\ \E i \in 1..(Len(history) - 1) :
          /\ IsValue(history[i])
          /\ history[i + 1].kind = "end"
          /\ history[i + 1].atEnd /\ history[i + 1].toks = <<>>

\* ------------------------------------------------- per-call vocabulary

\* The number of source items unread when call i started.
Before(i) == IF i = 1 THEN Len(input) ELSE history[i - 1].left

\* The source items call i read.
Segment(i) == SubSeq(input, Len(input) - Before(i) + 1, Len(input) - history[i].left)

HasFault(s) == \E n \in 1..Len(s) : s[n] = Fault

\* The maximal separator-free runs of the character sequence s, in order.
RunStartsOf(s) == {i \in 1..Len(s) : NotSep(s[i]) /\ (i = 1 \/ ~NotSep(s[i - 1]))}
RunEndOf(s, i) == CHOOSE j \in i..Len(s) :
                    /\ \A k \in i..j : NotSep(s[k])
                    /\ j = Len(s) \/ ~NotSep(s[j + 1])
RunsOf(s) ==
    LET starts == RunStartsOf(s)
    IN  [k \in 1..Cardinality(starts) |->
            LET i == CHOOSE i \in starts : Cardinality({j \in starts : j < i}) = k - 1
            IN  SubSeq(s, i, RunEndOf(s, i))]

\* ------------------------------------------------------------------ C11

\* C11: a SentenceSplitter.next() call returns an error exactly when it
\* reads a failing item, and then reads nothing after it; every sentence, in
\* particular one returned after an error, is made only of the tokens of
\* the items its own call read.
C11_ErrorAbandonsAccumulation ==
    user = "splitter" =>
        \A i \in 1..Len(history) :
            LET h == history[i]
                seg == Segment(i)
            IN  /\ h.kind = "err" <=> HasFault(seg)
                /\ h.kind = "err" =>
                      /\ Last(seg) = Fault
                      /\ ~HasFault(SubSeq(seg, 1, Len(seg) - 1))
                /\ IsValue(h) =>
                      /\ h.toks = RunsOf(seg)
                      /\ h.value \in {JoinBySpace(h.toks),
                                      JoinBySpace(h.toks) \o <<" ">>}

\* A call pulled a token and then failed, and a later call returned a
\* sentence.
C11_Witness ==
    /\ user = "splitter"
    /\ \E i \in 1..Len(history) : \E j \in (i + 1)..Len(history) :
          /\ history[i].kind = "err"
          /\ history[i].toks # <<>>
          /\ IsValue(history[j])

\* ------------------------------------------------------------------ C12

\* C12: a Tokenizer.next() call returns an error exactly when it reads a
\* failing item, and then reads nothing after it; every token is the run of
\* the items its own call read, so characters buffered before a fault are
\* in no token.
C12_FaultIsErrorNotToken ==
    user = "tokenizer" =>
        \A i \in 1..Len(history) :
            LET h == history[i]
                seg == Segment(i)
            IN  /\ h.kind = "err" <=> HasFault(seg)
                /\ h.kind = "err" => Last(seg) = Fault
                /\ IsValue(h) => RunsOf(seg) = <<h.value>>
                /\ h.kind = "end" => RunsOf(seg) = <<>>

\* Characters were buffered when the read failed, and a later call returned
\* a token.
C12_Witness ==
    /\ user = "tokenizer"
    /\ \E i \in 1..Len(history) : \E j \in (i + 1)..Len(history) :
          /\ history[i].kind = "err"
          /\ Len(Segment(i)) >= 2
          /\ NotSep(Segment(i)[Len(Segment(i)) - 1])
          /\ IsValue(history[j])

\* ------------------------------------------------------------------ C13

OnlySeparators == \A n \in 1..Len(input) : ~NotSep(input[n])

\* C13: for a source that is empty or holds only separators, the first call
\* of Tokenizer.next() and of SentenceSplitter.next() returns
\* end-of-sequence, having read the whole source.
C13_BlankSourceEndsAtOnce ==
    (OnlySeparators /\ history # <<>>) =>
        /\ history[1].kind = "end"
        /\ history[1].value = <<>>
        /\ history[1].toks = <<>>
        /\ history[1].left = 0

\* A source of two or more separators, and the splitter's first call made.
C13_Witness ==
    /\ user = "splitter"
    /\ OnlySeparators /\ Len(input) >= 2
    /\ history # <<>>

\* ------------------------------------------------------------------ C14

\* Token k of the call of entry h was read outside any open quote.
Outside(h, k) == h.quote = <<>> \/ k <= OpenAt(h)

\* The sentence of entry h was returned at its token k.
EndsAt(h, k) == IsValue(h) /\ ~h.atEnd /\ k = Len(h.toks)

\* The quote delimiters the token starts with.
StartingQuotes(t) == {i \in 1..Len(quote_types) : StartsWith(t, quote_types[i])}

\* The first quote delimiter, in configured order, the token starts with.
FirstQuoteOf(t) ==
    quote_types[CHOOSE i \in StartingQuotes(t) : \A j \in StartingQuotes(t) : i <= j]

\* C14 as stated: outside an open quote, a token that starts and ends with
\* some quote delimiter q ends the sentence and leaves no quote open.
C14_SelfQuotedTokenEnds ==
    user = "splitter" =>
        \A i \in 1..Len(history) :
            LET h == history[i]
            IN  \A k \in 1..Len(h.toks) : \A q \in QuoteSet :
                    (Outside(h, k) /\ StartsWith(h.toks[k], q) /\ EndsWith(h.toks[k], q))
                        => (EndsAt(h, k) /\ h.quote = <<>>)

\* C14 amended: outside an open quote, a token that starts and ends with q,
\* where q is the first configured quote delimiter the token starts with,
\* ends the sentence and leaves no quote open, whatever the terminators and
\* whether or not it ends with "..".
C14_FirstSelfQuotedTokenEnds ==
    user = "splitter" =>
        \A i \in 1..Len(history) :
            LET h == history[i]
            IN  \A k \in 1..Len(h.toks) :
                    (/\ Outside(h, k)
                     /\ StartingQuotes(h.toks[k]) # {}
                     /\ EndsWith(h.toks[k], FirstQuoteOf(h.toks[k])))
                        => (EndsAt(h, k) /\ h.quote = <<>>)

\* After an earlier token, a token that is a quote delimiter alone and ends
\* with no terminator ended the sentence.
C14_Witness ==
    /\ user = "splitter"
    /\ \E i \in 1..Len(history) :
          LET h == history[i]
              n == Len(h.toks)
          IN  /\ IsValue(h) /\ ~h.atEnd /\ h.quote = <<>>
              /\ n >= 2
              /\ h.toks[n] \in QuoteSet
              /\ ~EndsInTerminator(h.toks[n])

\* ------------------------------------------------------------------ C15

\* C15: the first token of every call is judged as outside any quote,
\* whatever the local quote of the previous call was: it ends the sentence
\* if it starts and ends with the first delimiter it starts with; it opens a
\* quote with that delimiter if it starts but does not end with it; else it
\* ends the sentence exactly when it is a cut token.
C15_QuoteResetEachCall ==
    user = "splitter" =>
        \A i \in 1..Len(history) :
            LET h == history[i]
                t == h.toks[1]
            IN  h.toks # <<>> =>
                    IF StartingQuotes(t) # {}
                    THEN IF EndsWith(t, FirstQuoteOf(t))
                         THEN EndsAt(h, 1) /\ h.quote = <<>>
                         ELSE ~EndsAt(h, 1) /\ h.quote = FirstQuoteOf(t)
                    ELSE EndsAt(h, 1) <=> IsCut(t)

\* The previous call left its local quote set, and the next call's first
\* token, a cut token not ending with that quote, ended its sentence.
C15_Witness ==
    /\ user = "splitter"
    /\ \E i \in 2..Len(history) :
          /\ history[i - 1].quote # <<>>
          /\ history[i].toks # <<>>
          /\ EndsAt(history[i], 1)
          /\ IsCut(history[i].toks[1])
          /\ ~EndsWith(history[i].toks[1], history[i - 1].quote)

\* ------------------------------------------------------------------ C16

\* C16: with no separators and a non-empty fault-free source, the first call
\* of Tokenizer.next() returns the whole source as one token, the second
\* returns end-of-sequence, and no call returns an error.
C16_NoSeparatorsOneToken ==
    (user = "tokenizer" /\ separators = <<>> /\ FaultFree /\ input # <<>>) =>
        /\ Len(history) >= 1 => (IsValue(history[1]) /\ history[1].value = input)
        /\ Len(history) >= 2 => history[2].kind = "end"
        /\ \A i \in 1..Len(history) : history[i].kind # "err"

\* No separators: a source holding a blank was returned whole, then
\* end-of-sequence.
C16_Witness ==
    /\ user = "tokenizer" /\ separators = <<>> /\ FaultFree
    /\ Len(input) >= 3
    /\ \E n \in 1..Len(input) : input[n] = " "
    /\ Len(history) >= 2

\* ------------------------------------------------------------------ C17

\* C17: for a fault-free source, the tokens of the sentences yielded so far
\* are, in order, the tokens of the part of the source read so far, and at
\* end-of-sequence all tokens of the source; each sentence's tokens are the
\* tokens of the items its call read, a call that returns at a token reads
\* no further than the separator after that token, and (when the space is a
\* separator) the sentence text splits back into those tokens.
C17_SentencesPartitionTokens ==
    (user = "splitter" /\ FaultFree) =>
        /\ Flatten(SentenceTokens) = RunsOf(Consumed)
        /\ Ended => Flatten(SentenceTokens) = Runs
        /\ \A i \in 1..Len(history) :
              LET h == history[i]
                  seg == Segment(i)
                  n == Len(seg)
              IN  IsValue(h) =>
                    /\ h.toks = RunsOf(seg)
                    /\ " " \in SepSet => RunsOf(h.value) = h.toks
                    /\ ~h.atEnd =>
                          \/ n >= 2 /\ ~NotSep(seg[n]) /\ NotSep(seg[n - 1])
                          \/ h.left = 0 /\ NotSep(seg[n])

\* Two sentences were yielded and end-of-sequence reached; the first holds
\* two tokens and its call left the rest of the source unread.
C17_Witness ==
    /\ user = "splitter" /\ FaultFree /\ Ended
    /\ Len(history) >= 3
    /\ IsValue(history[1]) /\ Len(history[1].toks) >= 2 /\ history[1].left > 0
    /\ IsValue(history[2])

\* ------------------------------------------------------------------ C18

\* C18: for a fault-free source, every call that returns a token or a
\* sentence has read at least one item of the source, a call on an
\* exhausted source returns end-of-sequence, and so at most Len(input)
\* results come before end-of-sequence.
C18_CallsConsumeAndEnd ==
    FaultFree =>
        /\ \A i \in 1..Len(history) :
              /\ history[i].kind # "end" => history[i].left < Before(i)
              /\ Before(i) = 0 => history[i].kind = "end"
        /\ Len(Values) <= Len(input)

\* Three results were yielded and end-of-sequence was then returned.
C18_Witness ==
    /\ FaultFree /\ Ended
    /\ Len(Values) >= 3

\* ------------------------------------------------------------------ C19

\* C19: once SentenceSplitter.next() has returned end-of-sequence, every
\* later call returns end-of-sequence.
C19_SplitterEndIsSticky ==
    user = "splitter" =>
        \A i \in 1..Len(history) : \A j \in i..Len(history) :
            history[i].kind = "end" => history[j].kind = "end"

\* A final sentence was yielded from the None arm, then end-of-sequence
\* twice.
C19_Witness ==
    /\ user = "splitter"
    /\ \E i \in 1..(Len(history) - 2) :
          /\ IsValue(history[i]) /\ history[i].atEnd
          /\ history[i + 1].kind = "end"
          /\ history[i + 2].kind = "end"

\* ------------------------------------------------------------------ C20

\* C20: outside an open quote, a token that starts with two or more quote
\* delimiters is decided by the first of them in configured order: if it
\* ends with that delimiter the sentence ends and no quote is open; if not,
\* a quote is opened with that delimiter and the sentence continues.
C20_FirstDelimiterDecides ==
    user = "splitter" =>
        \A i \in 1..Len(history) :
            LET h == history[i]
            IN  \A k \in 1..Len(h.toks) :
                    (Outside(h, k) /\ Cardinality(StartingQuotes(h.toks[k])) >= 2) =>
                        IF EndsWith(h.toks[k], FirstQuoteOf(h.toks[k]))
                        THEN EndsAt(h, k) /\ h.quote = <<>>
                        ELSE ~EndsAt(h, k) /\ h.quote = FirstQuoteOf(h.toks[k])

\* A token starting with two delimiters, and both starting and ending with
\* the later one, opened a quote with the first and the sentence went on to
\* another token.
C20_Witness ==
    /\ user = "splitter"
    /\ \E i \in 1..Len(history) :
          LET h == history[i]
          IN  \E k \in 1..(Len(h.toks) - 1) :
                /\ Outside(h, k)
                /\ Cardinality(StartingQuotes(h.toks[k])) >= 2
                /\ ~EndsWith(h.toks[k], FirstQuoteOf(h.toks[k]))
                /\ \E q \in QuoteSet : StartsWith(h.toks[k], q) /\ EndsWith(h.toks[k], q)
                /\ h.quote = FirstQuoteOf(h.toks[k])

====
